---- MODULE Spec2Model ----
(***************************************************************************)
(* Verification model of practical-opentelemetry-for-cats: the Go + Gin    *)
(* server (stages 01, stdout, final and the CORSMiddleware variant), the   *)
(* batching span processor and the propagator it configures, and the React *)
(* web client.                                                             *)
(***************************************************************************)
EXTENDS Integers, Sequences, FiniteSets, TLC

(***************************************************************************)
(* Bounds of the model.                                                    *)
(***************************************************************************)
MaxRequests == 1
MaxClock == 2
MaxSubmits == 1
MaxSpans == 23
MaxQueueSize == 12
MaxId == 2

(***************************************************************************)
(* Program constants.                                                      *)
(***************************************************************************)
MaxExportBatchSize_halved == 10 \div 2
MaxExportBatchSize_dozen == 10 + 2
MaxExportBatchSize_eleven == 10 + 1
MaxExportBatchSize == 10

VARIABLES
  variant,      \* which server source is running: "01", "stdout", "final" or "cors"
  mainPc,       \* position of main(): "start", "initialized", "serving", "exited",
                \* or "fatal" after log.Fatalf
  provider,     \* global tracer provider: "noop" or "sdk"
  propagator,   \* global text-map propagator: "none" or "tracecontext+baggage"
  shutdownCalls,\* number of provider.Shutdown invocations so far
  now,          \* wall clock
  spans,        \* all spans created in the process, indexed by span id
  reqs,         \* per-request handler state
  queue,        \* batching processor: ended spans waiting for export
  exports,      \* batching processor: log of export calls
  dropped,      \* batching processor: dropped-span counter
  bspStopped,   \* batching processor has been shut down
  webConfig,    \* which tracer.js the web client was built with
  option,       \* Form state.option
  subs,         \* per-submission state of Form.getActivity
  wspans,       \* spans created in the browser
  wpipe,        \* the browser's span processors and what their exporters were given
  environ,      \* what the process finds outside itself: environment variable,
                \* collector reachability, outcome of resource.New
  pipeline,     \* what initialisation built: exporter endpoint and resource
  carrier       \* a span context, the headers written from it and what is read back

goVars == <<variant, mainPc, provider, propagator, shutdownCalls, now, spans, reqs>>
bspVars == <<queue, exports, dropped, bspStopped>>
webVars == <<webConfig, option, subs, wspans, wpipe>>
serverVars == <<variant, mainPc, provider, propagator, shutdownCalls, now, spans, reqs,
                queue, exports, dropped, bspStopped>>
envVars == <<environ, pipeline>>
vars == <<variant, mainPc, provider, propagator, shutdownCalls, now, spans, reqs,
          queue, exports, dropped, bspStopped, webConfig, option, subs, wspans, wpipe,
          environ, pipeline, carrier>>

Requests == 1..MaxRequests

\* Span ids: each request owns the ids of the three spans its handling can
\* create (request span, getActivityWithParams, outgoing client call).
SpanIds == 1..(3 * MaxRequests)
ReqSpanId(r) == 3 * (r - 1) + 1
GawpSpanId(r) == 3 * (r - 1) + 2
ClientSpanId(r) == 3 * (r - 1) + 3

(***************************************************************************)
(* Values.                                                                 *)
(***************************************************************************)
BadType == "%zz"
FormTypes == {"", "education", BadType}
HeaderKinds == {"absent", "valid", "malformed"}
Variants == {"01", "final"}

\* os.LookupEnv("COLLECTOR_ENDPOINT"): absent, present and empty, present
\* with an address.
EnvLookups == {[ok |-> FALSE, value |-> ""], [ok |-> TRUE, value |-> ""],
               [ok |-> TRUE, value |-> "collector:4317"]}
\* The collector behind the endpoint: answering, unreachable, or too slow.
Collectors == {"up", "down", "slow"}
Environs == [lookup : EnvLookups, collector : Collectors, resourceErr : BOOLEAN]
NoPipeline == [endpoint |-> "none", resource |-> "none", registered |-> <<>>]

\* otel.SetTracerProvider(provider); otel.SetTextMapPropagator(...): the calls
\* that set the globals, added to the log of such calls.
SetGlobals(log) == log \o <<"SetTracerProvider", "SetTextMapPropagator">>

NoCarrier == [pc |-> "none"]

\* The context a span is started from: the trace and span id of its parent.
NoCtx == [trace |-> 0, span |-> 0]
RemoteCtx == [trace |-> -1, span |-> -1]
NoSpan == NoCtx.span
RemoteSpan == RemoteCtx.span
RemoteTrace == RemoteCtx.trace

Min(a, b) == IF a < b THEN a ELSE b

(***************************************************************************)
(* Batching span processor, as configured by WithBatcher.                  *)
(***************************************************************************)
\* The spans one export call takes from the queue.
BatchTake(q) == SubSeq(q, 1, Min(Len(q), MaxExportBatchSize))
BatchRest(q) == SubSeq(q, Min(Len(q), MaxExportBatchSize) + 1, Len(q))

\* An export call the processor starts: the exporter has the batch and has not
\* answered yet; timerDue records a batch timeout elapsing meanwhile.
ExportCall(batch, why) ==
  [batch |-> batch, why |-> why, result |-> "pending", timerDue |-> FALSE]

\* What an exporter call comes back with: the stdout exporter of the early
\* stages writes locally, the OTLP exporter depends on the collector.
ExportResult(v, coll) ==
  IF v \in {"01", "stdout"} THEN "ok"
  ELSE CASE coll = "up" -> "ok"
         [] coll = "down" -> "failed"
         [] OTHER -> "timeout"

BspOnEnd_evict(q, d, s, stopped) ==
  IF stopped THEN [queue |-> q, dropped |-> d]
  ELSE IF Len(q) >= MaxQueueSize THEN [queue |-> Append(Tail(q), s), dropped |-> d + 1]
  ELSE [queue |-> Append(q, s), dropped |-> d]

\* OnEnd of the processor: an ended span is queued; it is ignored once the
\* processor has been shut down, and dropped and counted when the queue is full.
BspOnEnd(q, d, s, stopped) ==
  IF stopped THEN [queue |-> q, dropped |-> d]
  ELSE IF Len(q) >= MaxQueueSize THEN [queue |-> q, dropped |-> d + 1]
  ELSE [queue |-> Append(q, s), dropped |-> d]

(***************************************************************************)
(* Span operations (tracer.Start, span.AddEvent, span.SetAttributes,       *)
(* span.End).                                                              *)
(***************************************************************************)
CtxOf(sps, id) == IF id = NoSpan THEN NoCtx
                  ELSE IF id = RemoteSpan THEN RemoteCtx
                  ELSE [trace |-> sps[id].trace, span |-> id]

NotStarted == [name |-> "", trace |-> 0, parent |-> NoSpan, start |-> 0, end |-> 0,
               endCalls |-> 0, events |-> <<>>, attrs |-> <<>>, lateWrites |-> 0,
               afterShutdown |-> FALSE]

\* tracer.Start(ctx, name): span id becomes a child of the span in ctx, or a
\* new root with a trace id of its own.
StartSpan(sps, id, name, ctx, t, down) ==
  [sps EXCEPT ![id] = [name |-> name,
                       trace |-> IF ctx.span = NoSpan THEN id ELSE ctx.trace,
                       parent |-> ctx.span,
                       start |-> t, end |-> 0, endCalls |-> 0,
                       events |-> <<>>, attrs |-> <<>>, lateWrites |-> 0,
                       afterShutdown |-> down]]

IsStarted(sps, id) == sps[id].name # ""

IsEnded(sps, id) == sps[id].endCalls > 0

AddEvent(sps, id, msg) ==
  IF id = NoSpan THEN sps
  ELSE IF IsEnded(sps, id)
       THEN [sps EXCEPT ![id].lateWrites = @ + 1]
       ELSE [sps EXCEPT ![id].events = Append(@, msg)]

SetAttributes(sps, id, kv) ==
  IF id = NoSpan THEN sps
  ELSE IF IsEnded(sps, id)
       THEN [sps EXCEPT ![id].lateWrites = @ + 1]
       ELSE [sps EXCEPT ![id].attrs = Append(@, kv)]

EndSpan(sps, id, t) ==
  IF id = NoSpan THEN sps
  ELSE [sps EXCEPT ![id].endCalls = @ + 1,
                   ![id].end = IF IsEnded(sps, id) THEN @ ELSE t]


(***************************************************************************)
(* Errors of the four failure points of getActivityWithParams.             *)
(***************************************************************************)
NilErr == [msg |-> "nil"]
ErrNewRequest == [msg |-> "parse url: invalid URL escape"]
ErrDo == [msg |-> "Get: dial tcp: connection refused"]
ErrRead == [msg |-> "unexpected EOF"]
ErrUnmarshal == [msg |-> "invalid character in JSON"]
ErrorMsg(e) == e.msg

\* http.NewRequestWithContext fails when the URL built from t does not parse.
NewRequestErr(t) == IF t = BadType THEN ErrNewRequest ELSE NilErr

(***************************************************************************)
(* Context propagation: the composite propagator TraceContext, Baggage.    *)
(* A header value is the sequence of its dash-separated fields; a field is *)
(* a number written in hexadecimal, or text that is not hexadecimal.       *)
(***************************************************************************)
Hex(v) == [hex |-> TRUE, val |-> v]
NotHex == [hex |-> FALSE, val |-> 0]

\* Span contexts; the id 0 is the invalid id.
EmptySC == [trace |-> 0, span |-> 0, sampled |-> FALSE]
SpanContexts == [trace : 0..MaxId, span : 0..MaxId, sampled : BOOLEAN]
Baggages == {<<>>, <<"user=cat">>}
IsValidSC(sc) == sc.trace # 0 /\ sc.span # 0

FormatTraceparent_unsampled(sc) == <<Hex(0), Hex(sc.trace), Hex(sc.span), Hex(0)>>

\* traceparent: version-traceid-spanid-flags, the sampled flag in bit 0.
FormatTraceparent(sc) ==
  <<Hex(0), Hex(sc.trace), Hex(sc.span), Hex(IF sc.sampled THEN 1 ELSE 0)>>

\* Reading traceparent: four hexadecimal fields (more are tolerated from a
\* later version, none from version ff), ids that are not zero; anything
\* else gives no span context.
ParseTraceparent(h) ==
  IF /\ Len(h) >= 4
     /\ \A k \in 1..4 : h[k].hex
     /\ h[1].val # 255
     /\ h[1].val = 0 => Len(h) = 4
     /\ h[2].val # 0
     /\ h[3].val # 0
  THEN [trace |-> h[2].val, span |-> h[3].val, sampled |-> h[4].val % 2 = 1]
  ELSE EmptySC

\* The value of a header, empty when the header is absent.
Header(headers, name) ==
  IF \E h \in headers : h.name = name
  THEN (CHOOSE h \in headers : h.name = name).value
  ELSE <<>>

\* Inject of the composite propagator: TraceContext writes traceparent for a
\* valid span context, Baggage writes baggage when there is any.
GoInject(sc, bag) ==
  (IF IsValidSC(sc) THEN {[name |-> "traceparent", value |-> FormatTraceparent(sc)]} ELSE {})
    \cup (IF bag # <<>> THEN {[name |-> "baggage", value |-> bag]} ELSE {})

\* Extract of the composite propagator.
GoExtract(headers) ==
  [sc |-> ParseTraceparent(Header(headers, "traceparent")),
   baggage |-> Header(headers, "baggage")]

\* The remote parent the server's middleware gets from the request headers.
ServerExtract(headers) ==
  LET sc == GoExtract(headers).sc
  IN IF IsValidSC(sc) THEN [trace |-> sc.trace, span |-> sc.span] ELSE NoCtx

\* What can happen to traceparent before it is read.
Tampers == {"none", "truncated", "nonhex", "version"}
Tamper(headers, how) ==
  {IF h.name # "traceparent" \/ how = "none" THEN h
   ELSE [h EXCEPT !.value = CASE how = "truncated" -> SubSeq(@, 1, 2)
                              [] how = "nonhex" -> [@ EXCEPT ![2] = NotHex]
                              [] OTHER -> [@ EXCEPT ![1] = Hex(255)]]
   : h \in headers}

\* The headers of an incoming request, by kind of traceparent.
IncomingHeaders(kind) ==
  LET sent == GoInject([trace |-> RemoteTrace, span |-> RemoteSpan, sampled |-> TRUE], <<>>)
  IN CASE kind = "absent" -> {}
       [] kind = "valid" -> sent
       [] OTHER -> Tamper(sent, "truncated")

(***************************************************************************)
(* Per-request state of the handler chain of POST /getActivity.            *)
(***************************************************************************)
IdleReq == [pc |-> "idle", method |-> "POST", path |-> "/getActivity",
            respHeaders |-> {}, aborted |-> FALSE,
            formType |-> "", hdr |-> "absent",
            reqSpan |-> NoSpan, gawpSpan |-> NoSpan, clientSpan |-> NoSpan,
            httpCtx |-> NoSpan, err |-> NilErr,
            failedAt |-> "none", writes |-> <<>>]

Serving == mainPc = "serving"

Extract_lenient(hdr) == IF propagator # "none" /\ hdr # "absent" THEN RemoteCtx ELSE NoCtx

\* propagator.Extract on the incoming headers.
Extract(hdr) == IF propagator = "none" THEN NoCtx ELSE ServerExtract(IncomingHeaders(hdr))

\* The tracer a span was started through: getActivityWithParams uses the
\* package-level tracer, obtained by otel.Tracer("go-server") when the package
\* is initialised; the instrumentation obtains its tracers when it is set up
\* in main, after InitOpenTelemetry.
TracerOf(sps, id) ==
  IF sps[id].name = "getActivityWithParams" THEN "package" ELSE "instrumentation"

ProviderOf_atCreation(tr) == IF tr = "package" THEN "noop" ELSE provider

\* The provider behind a tracer: a tracer obtained from the global provider
\* before one is registered forwards to the provider registered later.
ProviderOf(tr) == provider

\* span.End() as the SDK runs it: the first End of a span sets its end time
\* and hands the span to the provider's processor; st is the tracing state
\* [spans, queue, dropped].
SpanEnd(st, id, t) ==
  IF id = NoSpan THEN st
  ELSE LET o == IF IsEnded(st.spans, id) \/ ProviderOf(TracerOf(st.spans, id)) # "sdk"
                THEN [queue |-> st.queue, dropped |-> st.dropped]
                ELSE BspOnEnd(st.queue, st.dropped, id, bspStopped)
       IN [spans |-> EndSpan(st.spans, id, t), queue |-> o.queue, dropped |-> o.dropped]

GawpDeferred_noEnd(st, span, client, t) ==
  IF client # NoSpan /\ ~IsEnded(st.spans, client) THEN SpanEnd(st, client, t) ELSE st

\* The function return of getActivityWithParams: deferred calls run last
\* registered first, res.Body.Close() (which ends the client span when a
\* response was obtained) and then span.End().
GawpDeferred(st, span, client, t) ==
  SpanEnd(IF client # NoSpan /\ ~IsEnded(st.spans, client)
          THEN SpanEnd(st, client, t) ELSE st,
          span, t)

GawpOnError_masked(sps, span, e) == [spans |-> sps, err |-> NilErr]

\* An error path: span.AddEvent(err.Error()); return activityResponse, err
GawpOnError(sps, span, e) == [spans |-> AddEvent(sps, span, ErrorMsg(e)), err |-> e]

(***************************************************************************)
(* main and initialisation.                                                *)
(***************************************************************************)
\* The processor's state as Shutdown sees it.
BspState == [queue |-> queue, exports |-> exports, dropped |-> dropped, stopped |-> bspStopped]

\* Draining the queue at shutdown: export calls of at most a batch each,
\* until nothing is queued.
RECURSIVE DrainQueue(_, _, _)
DrainQueue(ex, q, res) ==
  IF q = <<>> THEN ex
  ELSE DrainQueue(Append(ex, [ExportCall(BatchTake(q), "shutdown") EXCEPT !.result = res]),
                  BatchRest(q), res)

BspShutdown_again(st, res) ==
  [st |-> [st EXCEPT !.stopped = TRUE,
                     !.exports = Append(DrainQueue(@, st.queue, res),
                                        [ExportCall(<<>>, "shutdown") EXCEPT !.result = res]),
                     !.queue = <<>>],
   err |-> NilErr]

\* Shutdown of the provider's processor: the first call exports what is
\* queued, waiting for the exporter, and stops the processor; any later call
\* finds it stopped, does nothing and returns nil.
BspShutdown(st, res) ==
  IF st.stopped THEN [st |-> st, err |-> NilErr]
  ELSE [st |-> [st EXCEPT !.stopped = TRUE,
                          !.exports = DrainQueue(@, st.queue, res),
                          !.queue = <<>>],
        err |-> NilErr]

\* provider.Shutdown(ctx)
ProviderShutdown ==
  LET r == BspShutdown(BspState, ExportResult(variant, environ.collector))
  IN /\ shutdownCalls' = shutdownCalls + 1
     /\ bspStopped' = r.st.stopped
     /\ queue' = r.st.queue
     /\ exports' = r.st.exports
     /\ dropped' = r.st.dropped

Endpoint_nonEmpty(lookup) ==
  IF lookup.ok /\ lookup.value # "" THEN lookup.value ELSE "localhost:4317"

\* endpoint := "localhost:4317"; a present COLLECTOR_ENDPOINT replaces it.
Endpoint(lookup) == IF lookup.ok THEN lookup.value ELSE "localhost:4317"

ErrExporter == [msg |-> "failed to create exporter"]
ErrResource == [msg |-> "failed to create resources"]

NewExporterErr_dial(v, coll) == IF v = "final" /\ coll # "up" THEN ErrExporter ELSE NilErr

\* The error of stdout.NewExporter / otlp.NewExporter: creating the exporter
\* does not wait for the collector, so its reachability does not matter.
NewExporterErr(v, coll) == NilErr

\* resource.New: the resource and the error it returns.
ResourceNew(fails) ==
  IF fails THEN [res |-> "missing", err |-> ErrResource]
  ELSE [res |-> "service.name=go-server", err |-> NilErr]

\* log.Fatalf: the process ends during initialisation.
Fatal ==
  /\ mainPc' = "fatal"
  /\ UNCHANGED <<provider, propagator, shutdownCalls, pipeline>>
  /\ UNCHANGED bspVars

\* src/go/01/main.go initOpenTelemetry: the error of resource.New is not
\* looked at, and the deferred Shutdown runs when the function returns.
InitOpenTelemetry01 ==
  /\ variant = "01"
  /\ mainPc = "start"
  /\ IF NewExporterErr(variant, environ.collector) # NilErr
     THEN Fatal
     ELSE /\ provider' = "sdk"
          /\ propagator' = "tracecontext+baggage"
          /\ pipeline' = [endpoint |-> "stdout",
                          resource |-> ResourceNew(environ.resourceErr).res,
                          registered |-> SetGlobals(pipeline.registered)]
          /\ ProviderShutdown
          /\ mainPc' = "initialized"
  /\ UNCHANGED <<variant, now, spans, reqs>>
  /\ UNCHANGED webVars
  /\ UNCHANGED <<environ, carrier>>

\* InitOpenTelemetry of the stdout stage: the error of resource.New is fatal.
InitOpenTelemetryStdout ==
  /\ variant = "stdout"
  /\ mainPc = "start"
  /\ IF \/ NewExporterErr(variant, environ.collector) # NilErr
        \/ ResourceNew(environ.resourceErr).err # NilErr
     THEN Fatal
     ELSE /\ provider' = "sdk"
          /\ propagator' = "tracecontext+baggage"
          /\ pipeline' = [endpoint |-> "stdout",
                          resource |-> ResourceNew(environ.resourceErr).res,
                          registered |-> SetGlobals(pipeline.registered)]
          /\ mainPc' = "initialized"
          /\ UNCHANGED shutdownCalls
          /\ UNCHANGED bspVars
  /\ UNCHANGED <<variant, now, spans, reqs>>
  /\ UNCHANGED webVars
  /\ UNCHANGED <<environ, carrier>>

\* src/go/final/otel.go InitOpenTelemetry: the endpoint is chosen, the OTLP
\* exporter created, and the provider built with whatever resource.New
\* returned, its error not looked at.
InitOpenTelemetry ==
  /\ variant = "final"
  /\ mainPc = "start"
  /\ IF NewExporterErr(variant, environ.collector) # NilErr
     THEN Fatal
     ELSE /\ provider' = "sdk"
          /\ propagator' = "tracecontext+baggage"
          /\ pipeline' = [endpoint |-> Endpoint(environ.lookup),
                          resource |-> ResourceNew(environ.resourceErr).res,
                          registered |-> SetGlobals(pipeline.registered)]
          /\ mainPc' = "initialized"
          /\ UNCHANGED shutdownCalls
          /\ UNCHANGED bspVars
  /\ UNCHANGED <<variant, now, spans, reqs>>
  /\ UNCHANGED webVars
  /\ UNCHANGED <<environ, carrier>>

\* router.Run()
RouterRun ==
  /\ mainPc = "initialized"
  /\ mainPc' = "serving"
  /\ UNCHANGED <<variant, provider, propagator, shutdownCalls, now, spans, reqs>>
  /\ UNCHANGED bspVars
  /\ UNCHANGED webVars
  /\ UNCHANGED <<environ, pipeline, carrier>>

\* The process ends (router.Run returns or the process is stopped); main has
\* nothing after router.Run().
ProcessExit ==
  /\ mainPc = "serving"
  /\ mainPc' = "exited"
  /\ UNCHANGED <<variant, provider, propagator, shutdownCalls, now, spans, reqs>>
  /\ UNCHANGED bspVars
  /\ UNCHANGED webVars
  /\ UNCHANGED <<environ, pipeline, carrier>>

(***************************************************************************)
(* Request handling: otelgin.Middleware, handleForm, getActivityWithParams.*)
(***************************************************************************)
Tracing == [spans |-> spans, queue |-> queue, dropped |-> dropped]

SetTracing(st) ==
  /\ spans' = st.spans
  /\ queue' = st.queue
  /\ dropped' = st.dropped

StrLen(t) == CASE t = "" -> 0 [] t = "education" -> 9 [] OTHER -> 3

\* Access-Control-Allow-Headers of the server: cors.Default() in the final
\* stage, CORSMiddleware in the variant that writes the headers itself.
CorsAllowHeaders(v) ==
  IF v = "final" THEN {"origin", "content-length", "content-type"}
  ELSE {"traceparent", "baggage", "content-type", "content-length", "accept-encoding",
        "x-csrf-token", "authorization", "accept", "origin", "cache-control",
        "x-requested-with"}

\* The requests a client makes of the server with CORSMiddleware: the
\* preflight of the form submission, the submission, and the root page.
RequestKinds == {[method |-> "OPTIONS", path |-> "/getActivity"],
                 [method |-> "POST", path |-> "/getActivity"],
                 [method |-> "GET", path |-> "/"]}

\* The headers CORSMiddleware sets on the response.
CorsHeaders(v) ==
  {[name |-> "Access-Control-Allow-Origin", value |-> {"*"}],
   [name |-> "Access-Control-Allow-Credentials", value |-> {"true"}],
   [name |-> "Access-Control-Allow-Headers", value |-> CorsAllowHeaders(v)],
   [name |-> "Access-Control-Allow-Methods", value |-> {"POST", "OPTIONS", "GET", "PUT"}]}

CORSMiddleware_noAbort(r) ==
  /\ Serving
  /\ variant = "cors"
  /\ reqs[r].pc = "idle"
  /\ \A q \in Requests : q < r => reqs[q].pc # "idle"
  /\ \E k \in RequestKinds :
       reqs' = [reqs EXCEPT ![r] =
                  [IdleReq EXCEPT !.method = k.method, !.path = k.path,
                                  !.respHeaders = CorsHeaders(variant),
                                  !.writes = IF k.method = "OPTIONS"
                                             THEN <<[status |-> 204, body |-> ""]>> ELSE <<>>,
                                  !.pc = "next"]]
  /\ UNCHANGED <<variant, mainPc, provider, propagator, shutdownCalls, now, spans>>
  /\ UNCHANGED bspVars
  /\ UNCHANGED webVars
  /\ UNCHANGED <<environ, pipeline, carrier>>

\* CORSMiddleware, the first handler of the chain: it sets the four headers,
\* answers a request with method OPTIONS with 204 and aborts the chain, and
\* calls c.Next() for any other.  Requests are numbered in arrival order.
CORSMiddleware(r) ==
  /\ Serving
  /\ variant = "cors"
  /\ reqs[r].pc = "idle"
  /\ \A q \in Requests : q < r => reqs[q].pc # "idle"
  /\ \E k \in RequestKinds :
       reqs' = [reqs EXCEPT ![r] =
                  [IdleReq EXCEPT !.method = k.method, !.path = k.path,
                                  !.respHeaders = CorsHeaders(variant),
                                  !.aborted = (k.method = "OPTIONS"),
                                  !.writes = IF k.method = "OPTIONS"
                                             THEN <<[status |-> 204, body |-> ""]>> ELSE <<>>,
                                  !.pc = IF k.method = "OPTIONS" THEN "done" ELSE "next"]]
  /\ UNCHANGED <<variant, mainPc, provider, propagator, shutdownCalls, now, spans>>
  /\ UNCHANGED bspVars
  /\ UNCHANGED webVars
  /\ UNCHANGED <<environ, pipeline, carrier>>

\* Where the tracing middleware finds a request: first in the chain, or
\* after CORSMiddleware's c.Next().
TracingEntry(v) == IF v = "cors" THEN "next" ELSE "idle"

\* A request reaches otelgin.Middleware, which runs up to c.Next(): it
\* extracts the remote context, starts the request span and puts it on the
\* request context.  Requests are numbered in arrival order.
MiddlewareStart(r) ==
  /\ Serving
  /\ reqs[r].pc = TracingEntry(variant)
  /\ \A q \in Requests : q < r => reqs[q].pc # "idle"
  /\ \E t \in FormTypes, h \in HeaderKinds :
       /\ spans' = StartSpan(spans, ReqSpanId(r), reqs[r].path, Extract(h), now,
                             shutdownCalls > 0)
       /\ reqs' = [reqs EXCEPT ![r] = [reqs[r] EXCEPT !.pc = "handler", !.formType = t,
                                                      !.hdr = h, !.reqSpan = ReqSpanId(r)]]
  /\ UNCHANGED <<variant, mainPc, provider, propagator, shutdownCalls, now>>
  /\ UNCHANGED bspVars
  /\ UNCHANGED webVars
  /\ UNCHANGED <<environ, pipeline, carrier>>

HttpCtx_discarded(v, reqSpan, gawpSpan) == reqSpan

\* The context handed to http.NewRequestWithContext: stage 01 discards the
\* context returned by tracer.Start, the final stage keeps it.
HttpCtx(v, reqSpan, gawpSpan) == IF v = "01" THEN reqSpan ELSE gawpSpan

\* The span getActivityWithParams starts: tracer.Start(ctx, ...) on the
\* request context.
GawpStart(sps, id, reqSpan, t, clock, down) ==
  SetAttributes(StartSpan(sps, id, "getActivityWithParams", CtxOf(sps, reqSpan), clock, down),
                id, <<"activityType", t>>)

\* handleForm in the stages that enrich the request span.
HandleFormAttrs(v, sps, reqSpan, t) ==
  IF v = "01" THEN sps
  ELSE SetAttributes(sps, reqSpan, <<"emptyForm", StrLen(t) > 0>>)

HandleFormRespond_exporterHealth(e) ==
  IF environ.collector # "up" \/ (\E k \in 1..Len(exports) : exports[k].result = "failed")
  THEN <<[status |-> 500, body |-> "export failed"]>>
  ELSE (IF e # NilErr THEN <<[status |-> 500, body |-> ErrorMsg(e)]>> ELSE <<>>)
         \o <<[status |-> 200, body |-> "activity"]>>

\* The rest of handleForm once getActivityWithParams has returned: c.String on
\* an error, then c.JSON.
HandleFormRespond(e) ==
  (IF e # NilErr THEN <<[status |-> 500, body |-> ErrorMsg(e)]>> ELSE <<>>)
    \o <<[status |-> 200, body |-> "activity"]>>

\* An error return of getActivityWithParams, deferred calls included.
GawpFail(st, span, client, e, t) ==
  LET a == GawpOnError(st.spans, span, e)
  IN [st |-> GawpDeferred([st EXCEPT !.spans = a.spans], span, client, t), err |-> a.err]

\* handleForm up to the call, and getActivityWithParams up to c.Do(req); when
\* the request cannot be built, through to the end of handleForm.
HandleFormEnter(r) ==
  /\ Serving
  /\ reqs[r].pc = "handler"
  /\ reqs[r].method = "POST" /\ reqs[r].path = "/getActivity"
  /\ LET t == reqs[r].formType
         s1 == HandleFormAttrs(variant, spans, reqs[r].reqSpan, t)
         g == GawpSpanId(r)
         s2 == GawpStart(s1, g, reqs[r].reqSpan, t, now, shutdownCalls > 0)
         e == NewRequestErr(t)
     IN IF e # NilErr
        THEN LET f == GawpFail([Tracing EXCEPT !.spans = s2], g, NoSpan, e, now)
             IN /\ SetTracing(f.st)
                /\ reqs' = [reqs EXCEPT ![r].pc = "mwend", ![r].gawpSpan = g,
                                        ![r].httpCtx = HttpCtx(variant, reqs[r].reqSpan, g),
                                        ![r].err = f.err,
                                        ![r].failedAt = "newreq",
                                        ![r].writes = HandleFormRespond(f.err)]
        ELSE /\ spans' = s2
             /\ reqs' = [reqs EXCEPT ![r].pc = "do", ![r].gawpSpan = g,
                                     ![r].httpCtx = HttpCtx(variant, reqs[r].reqSpan, g)]
             /\ UNCHANGED <<queue, dropped>>
  /\ UNCHANGED <<variant, mainPc, provider, propagator, shutdownCalls, now, exports, bspStopped>>
  /\ UNCHANGED webVars
  /\ UNCHANGED <<environ, pipeline, carrier>>

\* c.Do(req): the final stage's otelhttp transport starts a client span on
\* the request's context; stage 01 uses a plain http.Client.
ClientDo(r) ==
  /\ Serving
  /\ reqs[r].pc = "do"
  /\ \E ok \in BOOLEAN :
       LET instrumented == variant # "01"
           c == IF instrumented THEN ClientSpanId(r) ELSE NoSpan
           s1 == IF instrumented
                 THEN StartSpan(spans, c, "HTTP GET", CtxOf(spans, reqs[r].httpCtx), now,
                                shutdownCalls > 0)
                 ELSE spans
       IN IF ok
          THEN /\ spans' = s1
               /\ reqs' = [reqs EXCEPT ![r].pc = "read", ![r].clientSpan = c]
               /\ UNCHANGED <<queue, dropped>>
          ELSE LET f == GawpFail(SpanEnd([Tracing EXCEPT !.spans = s1], c, now),
                                 reqs[r].gawpSpan, NoSpan, ErrDo, now)
               IN /\ SetTracing(f.st)
                  /\ reqs' = [reqs EXCEPT ![r].pc = "mwend", ![r].clientSpan = c,
                                          ![r].err = f.err,
                                          ![r].failedAt = "do",
                                          ![r].writes = HandleFormRespond(f.err)]
  /\ UNCHANGED <<variant, mainPc, provider, propagator, shutdownCalls, now, exports, bspStopped>>
  /\ UNCHANGED webVars
  /\ UNCHANGED <<environ, pipeline, carrier>>

\* ioutil.ReadAll, json.Unmarshal, the return of getActivityWithParams and the
\* rest of handleForm.
ReadBody(r) ==
  /\ Serving
  /\ reqs[r].pc = "read"
  /\ \E outcome \in {"read", "unmarshal", "none"} :
       LET e == CASE outcome = "read" -> ErrRead
                  [] outcome = "unmarshal" -> ErrUnmarshal
                  [] OTHER -> NilErr
       IN IF e # NilErr
          THEN LET f == GawpFail(Tracing, reqs[r].gawpSpan, reqs[r].clientSpan, e, now)
               IN /\ SetTracing(f.st)
                  /\ reqs' = [reqs EXCEPT ![r].pc = "mwend",                                           ![r].err = f.err, ![r].failedAt = outcome,
                                          ![r].writes = HandleFormRespond(f.err)]
          ELSE /\ SetTracing(GawpDeferred(Tracing, reqs[r].gawpSpan, reqs[r].clientSpan, now))
               /\ reqs' = [reqs EXCEPT ![r].pc = "mwend",
                                       ![r].writes = HandleFormRespond(NilErr)]
  /\ UNCHANGED <<variant, mainPc, provider, propagator, shutdownCalls, now, exports, bspStopped>>
  /\ UNCHANGED webVars
  /\ UNCHANGED <<environ, pipeline, carrier>>

\* The handler of GET /: c.String(http.StatusOK, "hello world!")
HelloHandler(r) ==
  /\ Serving
  /\ reqs[r].pc = "handler"
  /\ reqs[r].method = "GET" /\ reqs[r].path = "/"
  /\ reqs' = [reqs EXCEPT ![r].pc = "mwend",
                          ![r].writes = <<[status |-> 200, body |-> "hello world!"]>>]
  /\ UNCHANGED <<variant, mainPc, provider, propagator, shutdownCalls, now, spans>>
  /\ UNCHANGED bspVars
  /\ UNCHANGED webVars
  /\ UNCHANGED <<environ, pipeline, carrier>>

MiddlewareEnd_skipOnError(r) ==
  /\ Serving
  /\ reqs[r].pc = "mwend"
  /\ IF reqs[r].err # NilErr THEN UNCHANGED <<spans, queue, dropped>>
     ELSE SetTracing(SpanEnd(Tracing, reqs[r].reqSpan, now))
  /\ reqs' = [reqs EXCEPT ![r].pc = "done"]
  /\ UNCHANGED <<variant, mainPc, provider, propagator, shutdownCalls, now, exports, bspStopped>>
  /\ UNCHANGED webVars
  /\ UNCHANGED <<environ, pipeline, carrier>>

\* otelgin.Middleware after c.Next(): the deferred span.End() of the request
\* span.
MiddlewareEnd(r) ==
  /\ Serving
  /\ reqs[r].pc = "mwend"
  /\ SetTracing(SpanEnd(Tracing, reqs[r].reqSpan, now))
  /\ reqs' = [reqs EXCEPT ![r].pc = "done"]
  /\ UNCHANGED <<variant, mainPc, provider, propagator, shutdownCalls, now, exports, bspStopped>>
  /\ UNCHANGED webVars
  /\ UNCHANGED <<environ, pipeline, carrier>>

(***************************************************************************)
(* Background activity of the batching processor.                          *)
(***************************************************************************)
BspRunning == mainPc \in {"initialized", "serving"} /\ provider = "sdk" /\ ~bspStopped

\* The processor is inside an exporter call.
Exporting == exports # <<>> /\ exports[Len(exports)].result = "pending"

\* One batch timeout of wall-clock time passes (the clock counts in units of
\* the batch timeout): the processor's timer fires and what is queued is
\* exported, nothing when the queue is empty.  While the processor is inside
\* an exporter call the timer is only noted; it is served when the call
\* returns.
Tick ==
  /\ mainPc = "serving"
  /\ now < MaxClock
  /\ now' = now + 1
  /\ IF BspRunning /\ Exporting
     THEN /\ exports' = [exports EXCEPT ![Len(exports)].timerDue = TRUE]
          /\ UNCHANGED queue
     ELSE IF BspRunning /\ queue # <<>>
     THEN /\ exports' = Append(exports, ExportCall(BatchTake(queue), "timer"))
          /\ queue' = BatchRest(queue)
     ELSE UNCHANGED <<queue, exports>>
  /\ UNCHANGED <<dropped, bspStopped>>
  /\ UNCHANGED <<variant, mainPc, provider, propagator, shutdownCalls, spans, reqs>>
  /\ UNCHANGED webVars
  /\ UNCHANGED <<environ, pipeline, carrier>>

\* Number of spans the processor has been handed so far.
Exported(ex) ==
  LET F[k \in 0..Len(ex)] == IF k = 0 THEN 0 ELSE F[k - 1] + Len(ex[k].batch)
  IN F[Len(ex)]

Handled == Len(queue) + dropped + Exported(exports)

\* Some handler ends a sampled span: the processor's OnEnd runs.
SpanEnds ==
  /\ BspRunning
  /\ Handled < MaxSpans
  /\ LET o == BspOnEnd(queue, dropped, Handled + 1, bspStopped)
     IN /\ queue' = o.queue
        /\ dropped' = o.dropped
  /\ UNCHANGED <<exports, bspStopped>>
  /\ UNCHANGED goVars
  /\ UNCHANGED webVars
  /\ UNCHANGED <<environ, pipeline, carrier>>

\* The queue holds a full batch: it is exported at once.
BspCountFlush ==
  /\ BspRunning
  /\ ~Exporting
  /\ Len(queue) >= MaxExportBatchSize
  /\ exports' = Append(exports, ExportCall(BatchTake(queue), "count"))
  /\ queue' = BatchRest(queue)
  /\ UNCHANGED <<dropped, bspStopped>>
  /\ UNCHANGED goVars
  /\ UNCHANGED webVars
  /\ UNCHANGED <<environ, pipeline, carrier>>

ExportDone_reset(ex, q, res) ==
  [exports |-> [ex EXCEPT ![Len(ex)].result = res, ![Len(ex)].timerDue = FALSE],
   queue |-> <<>>]

\* The exporter call returns with its result: the batch it was given is
\* finished with, whatever the result, and the queue is not touched.
ExportDone(ex, q, res) ==
  [exports |-> [ex EXCEPT ![Len(ex)].result = res, ![Len(ex)].timerDue = FALSE],
   queue |-> q]

\* The exporter call of the background flush returns; a batch timeout noted
\* during the call is served now.
ExportReturns ==
  /\ Exporting
  /\ LET d == ExportDone(exports, queue, ExportResult(variant, environ.collector))
     IN IF exports[Len(exports)].timerDue /\ BspRunning /\ d.queue # <<>>
        THEN /\ exports' = Append(d.exports, ExportCall(BatchTake(d.queue), "timer"))
             /\ queue' = BatchRest(d.queue)
        ELSE /\ exports' = d.exports
             /\ queue' = d.queue
  /\ UNCHANGED <<dropped, bspStopped>>
  /\ UNCHANGED goVars
  /\ UNCHANGED webVars
  /\ UNCHANGED <<environ, pipeline, carrier>>

(***************************************************************************)
(* The web client: tracer.js configurations and Form.getActivity.          *)
(***************************************************************************)
WebConfigs == {"base", "final", "b3string", "b3list"}
Options == {"", "education", "music"}
Submits == 1..MaxSubmits
WebSpanIds == 1..(2 * MaxSubmits)
FetchActivityId(i) == 2 * (i - 1) + 1
FetchSpanId(i) == 2 * (i - 1) + 2

\* The context manager in force: provider.register({contextManager: new
\* ZoneContextManager()}) is called by every tracer.js but the base one.
ContextManager(cfg) == IF cfg = "base" THEN "noop" ELSE "zone"

\* The propagator in force: the default of provider.register is W3C trace
\* context, two variants register B3Propagator, the base one registers nothing.
WebPropagator(cfg) == CASE cfg = "base" -> "noop"
                        [] cfg = "final" -> "tracecontext"
                        [] OTHER -> "b3"

\* URLs are sequences of pieces.
ServerOrigin == <<"http://", "localhost", ":8080">>
PageOrigin == <<"http://", "localhost", ":3000">>
GetActivityUrl == ServerOrigin \o <<"/getActivity">>

\* `http://localhost:8080/getActivity?type=${this.state.option}`
RequestUrl(opt) == GetActivityUrl \o <<"?type=">> \o (IF opt = "" THEN <<>> ELSE <<opt>>)

\* propagateTraceHeaderCorsUrls of each FetchInstrumentation.
CorsUrls(cfg) ==
  CASE cfg = "base" -> {}
    [] cfg = "final" -> {[kind |-> "regex", pattern |-> <<"localhost", ".+">>]}
    [] cfg = "b3string" -> {[kind |-> "string", pattern |-> GetActivityUrl]}
    [] OTHER -> {[kind |-> "string", pattern |-> ServerOrigin],
                 [kind |-> "string", pattern |-> GetActivityUrl]}

\* A string matches the whole URL only; the regular expression /localhost.+/
\* matches when something follows an occurrence of localhost.
UrlMatches(url, m) ==
  IF m.kind = "string" THEN url = m.pattern
  ELSE \E k \in 1..Len(url) : url[k] = m.pattern[1] /\ k < Len(url)

\* Whether the fetch instrumentation adds trace headers to a request.
ShouldPropagate(cfg, url) ==
  \/ SubSeq(url, 1, 3) = PageOrigin
  \/ \E m \in CorsUrls(cfg) : UrlMatches(url, m)

\* The headers a propagator writes for a span context.
Inject(prop, ctx) ==
  CASE prop = "tracecontext" ->
         {[name |-> "traceparent",
           value |-> FormatTraceparent([trace |-> ctx.trace, span |-> ctx.span,
                                        sampled |-> TRUE])]}
    [] prop = "b3" -> {[name |-> "b3", value |-> <<ctx.trace, ctx.span, "1">>]}
    [] OTHER -> {}

\* The request Form.getActivity makes: fetch(url, {method: 'POST', mode:
\* 'cors'}), the option in the query string of the URL and no body.
FetchRequest(url) == [method |-> "POST", url |-> url, body |-> {}]

\* The value of the parameter type in the query string of a URL.
QueryType(url) ==
  IF \E k \in 1..Len(url) : url[k] = "?type=" /\ k < Len(url)
  THEN url[(CHOOSE k \in 1..Len(url) : url[k] = "?type=") + 1]
  ELSE ""

\* c.PostForm(key): the value of key in the form the request body carries,
\* the empty string when there is none; the query string is not looked at.
PostForm(req, key) ==
  IF \E f \in req.body : f.key = key
  THEN (CHOOSE f \in req.body : f.key = key).value
  ELSE ""

\* fmt.Sprintf("https://www.boredapi.com/api/activity?type=%s", t)
UpstreamUrl(t) ==
  <<"https://", "www.boredapi.com", "/api/activity", "?type=">>
    \o (IF t = "" THEN <<>> ELSE <<t>>)

\* What the server makes of a request it received: the form value handleForm
\* reads, the activityType attribute getActivityWithParams sets from it, and
\* the type parameter of the upstream query.
ServerReads(req) ==
  LET t == PostForm(req, "type")
  IN [formType |-> t, activityType |-> t, upstreamType |-> QueryType(UpstreamUrl(t))]

\* A cross-origin request with headers outside the safelist is preflighted,
\* and sent only when the server allows each of them.
BrowserSends(v, headers) == \A h \in headers : h.name \in CorsAllowHeaders(v)

(***************************************************************************)
(* The browser's span pipeline: the processors added to the provider, in   *)
(* the order of the addSpanProcessor calls, and their exporters.           *)
(***************************************************************************)
SimpleConsole == [kind |-> "simple", exporter |-> "console"]
SimpleCollector == [kind |-> "simple", exporter |-> "collector"]
BatchCollector == [kind |-> "batch", exporter |-> "collector"]

WebProcessors_consoleOnly(cfg) == <<SimpleConsole>>

\* provider.addSpanProcessor(...) of each tracer.js.
WebProcessors(cfg) ==
  IF cfg = "final" THEN <<SimpleConsole, BatchCollector>>
  ELSE <<SimpleConsole, SimpleCollector>>

\* delivered: the onEnd calls made, in order; exported: the export calls
\* made, in order; wqueue: the batch processor's buffer; ended: the spans
\* whose end() has returned, in order.
NoWebPipe == [delivered |-> <<>>, exported |-> <<>>, wqueue |-> <<>>, ended |-> <<>>]

\* The result an exporter reports for one export call, per exporter.
WebExportResults == [console : {"ok", "failed"}, collector : {"ok", "failed"}]

\* exporter.export(batch, resultCallback)
WebExport(p, exporter, batch, result) ==
  [p EXCEPT !.exported = Append(@, [exporter |-> exporter, batch |-> batch,
                                    result |-> result])]

WebOnEnd_deferred(p, proc, k, id, res) ==
  [p EXCEPT !.delivered = Append(@, [proc |-> k, to |-> proc, span |-> id]),
            !.wqueue = Append(@, id)]

\* onEnd of one processor: the simple processor calls its exporter at once
\* with the one span and does not look at the result; the batch processor
\* adds the span to its buffer.
WebOnEnd(p, proc, k, id, res) ==
  LET p1 == [p EXCEPT !.delivered = Append(@, [proc |-> k, to |-> proc, span |-> id])]
  IN IF proc.kind = "simple"
     THEN WebExport(p1, proc.exporter, <<id>>, res[proc.exporter])
     ELSE [p1 EXCEPT !.wqueue = Append(@, id)]

\* onEnd of the provider's processor list: each processor in turn.
MultiOnEnd(p, procs, id, res) ==
  LET F[k \in 0..Len(procs)] ==
        IF k = 0 THEN p ELSE WebOnEnd(F[k - 1], procs[k], k, id, res)
  IN F[Len(procs)]

\* span.end() in the browser: the first end() of a span sets its end time
\* and runs the processors before it returns; wt is [wspans, wpipe].
WebSpanEnd(wt, cfg, id, t, res) ==
  IF IsEnded(wt.wspans, id) THEN [wt EXCEPT !.wspans = EndSpan(@, id, t)]
  ELSE [wspans |-> EndSpan(wt.wspans, id, t),
        wpipe |-> [MultiOnEnd(wt.wpipe, WebProcessors(cfg), id, res)
                     EXCEPT !.ended = Append(@, id)]]

WebTracing == [wspans |-> wspans, wpipe |-> wpipe]

SetWebTracing(wt) ==
  /\ wspans' = wt.wspans
  /\ wpipe' = wt.wpipe

IdleSub == [pc |-> "idle", option |-> "", url |-> <<>>, headers |-> {},
            ctxInWith |-> NoSpan, ctxAfterWith |-> NoSpan, ctxAfterAwait |-> NoSpan,
            serverUp |-> FALSE, delivered |-> FALSE, srvSpan |-> NoCtx, srvParent |-> NoSpan,
            formType |-> "", activityType |-> "", upstreamType |-> "",
            outcome |-> "pending"]

\* Form.setOption
SetOption(v) ==
  /\ option # v
  /\ option' = v
  /\ UNCHANGED <<webConfig, subs, wspans, wpipe>>
  /\ UNCHANGED serverVars
  /\ UNCHANGED <<environ, pipeline, carrier>>

\* The span context.with makes active for its callback.
ActiveInWith(cfg, previous, span) == IF ContextManager(cfg) = "zone" THEN span ELSE previous

\* Form.getActivity up to the first await: start fetchActivity, run the
\* callback under context.with, where the instrumented fetch starts its span
\* on the active context and injects headers; then the scope ends.
GetActivity(i) ==
  /\ subs[i].pc = "idle"
  /\ \A j \in Submits : j < i => subs[j].pc # "idle"
  /\ LET root == FetchActivityId(i)
         f == FetchSpanId(i)
         s1 == StartSpan(wspans, root, "fetchActivity", NoCtx, now, FALSE)
         active == ActiveInWith(webConfig, NoSpan, root)
         s2 == StartSpan(s1, f, "HTTP POST", CtxOf(s1, active), now, FALSE)
         url == RequestUrl(option)
     IN /\ wspans' = s2
        /\ subs' = [subs EXCEPT ![i] =
                      [IdleSub EXCEPT !.pc = "fetching", !.option = option, !.url = url,
                                      !.headers = IF ShouldPropagate(webConfig, url)
                                                  THEN Inject(WebPropagator(webConfig),
                                                              CtxOf(s2, f))
                                                  ELSE {},
                                      !.ctxInWith = active, !.ctxAfterWith = NoSpan]]
  /\ UNCHANGED <<webConfig, option, wpipe>>
  /\ UNCHANGED serverVars
  /\ UNCHANGED <<environ, pipeline, carrier>>

\* The fetch settles: it rejects when the server cannot be reached or the
\* browser refuses the request after the preflight; otherwise the server's
\* tracing middleware starts the request span from the headers it received.
FetchSettles(i) ==
  /\ subs[i].pc = "fetching"
  /\ \E up \in BOOLEAN :
       LET sent == up /\ BrowserSends(variant, subs[i].headers)
           ctx == ServerExtract(subs[i].headers)
           got == ServerReads(FetchRequest(subs[i].url))
       IN subs' = [subs EXCEPT ![i].serverUp = up,
                               ![i].formType = IF sent THEN got.formType ELSE "",
                               ![i].activityType = IF sent THEN got.activityType ELSE "",
                               ![i].upstreamType = IF sent THEN got.upstreamType ELSE "",
                               ![i].delivered = sent,
                               ![i].srvSpan = IF ~sent THEN NoCtx
                                              ELSE [trace |-> IF ctx = NoCtx THEN 100 + i
                                                              ELSE ctx.trace,
                                                    span |-> 100 + i],
                               ![i].srvParent = IF sent THEN ctx.span ELSE NoSpan,
                               ![i].pc = IF sent THEN "text" ELSE "settled",
                               ![i].outcome = IF sent THEN "pending" ELSE "fetch rejected",
                               ![i].ctxAfterAwait =
                                  IF sent THEN ActiveInWith(webConfig, NoSpan, FetchActivityId(i))
                                  ELSE NoSpan]
  /\ \E res \in WebExportResults :
       SetWebTracing(WebSpanEnd(WebTracing, webConfig, FetchSpanId(i), now, res))
  /\ UNCHANGED <<webConfig, option>>
  /\ UNCHANGED serverVars
  /\ UNCHANGED <<environ, pipeline, carrier>>

\* The rest of the callback: await res.text(), JSON.parse, setResults and
\* getActivitySpan.end(); a failure of res.text() or JSON.parse leaves the
\* callback before the end() call.
TextSettles(i) ==
  /\ subs[i].pc = "text"
  /\ \E outcome \in {"text failed", "parse failed", "ok"}, res \in WebExportResults :
       /\ subs' = [subs EXCEPT ![i].pc = "settled", ![i].outcome = outcome]
       /\ SetWebTracing(IF outcome = "ok"
                        THEN WebSpanEnd(WebTracing, webConfig, FetchActivityId(i), now, res)
                        ELSE WebTracing)
  /\ UNCHANGED <<webConfig, option>>
  /\ UNCHANGED serverVars
  /\ UNCHANGED <<environ, pipeline, carrier>>

\* The batch processor's timer fires: what is buffered goes to the
\* collector exporter in one export call, whatever its result.
WebBatchFlush ==
  /\ wpipe.wqueue # <<>>
  /\ \E result \in {"ok", "failed"} :
       wpipe' = [WebExport(wpipe, "collector", wpipe.wqueue, result) EXCEPT !.wqueue = <<>>]
  /\ UNCHANGED <<webConfig, option, subs, wspans>>
  /\ UNCHANGED serverVars
  /\ UNCHANGED <<environ, pipeline, carrier>>

(***************************************************************************)
(* The Go server.                                                          *)
(***************************************************************************)
Init ==
  /\ variant \in Variants
  /\ mainPc = "start"
  /\ provider = "noop"
  /\ propagator = "none"
  /\ shutdownCalls = 0
  /\ now = 1
  /\ spans = [id \in SpanIds |-> NotStarted]
  /\ reqs = [r \in Requests |-> IdleReq]
  /\ queue = <<>>
  /\ exports = <<>>
  /\ dropped = 0
  /\ bspStopped = FALSE
  /\ webConfig = "final"
  /\ option = ""
  /\ subs = [i \in Submits |-> IdleSub]
  /\ wspans = [id \in WebSpanIds |-> NotStarted]
  /\ wpipe = NoWebPipe
  /\ environ \in {e \in Environs : ~e.lookup.ok /\ ~e.resourceErr}
  /\ pipeline = NoPipeline
  /\ carrier = NoCarrier

Next ==
  \/ InitOpenTelemetry01
  \/ InitOpenTelemetry
  \/ RouterRun
  \/ ProcessExit
  \/ Tick
  \/ ExportReturns
  \/ \E r \in Requests : MiddlewareStart(r)
  \/ \E r \in Requests : HandleFormEnter(r)
  \/ \E r \in Requests : ClientDo(r)
  \/ \E r \in Requests : ReadBody(r)
  \/ \E r \in Requests : MiddlewareEnd(r)

Spec == Init /\ [][Next]_vars

(***************************************************************************)
(* Start-up of each stage of the server, in every environment.             *)
(***************************************************************************)
StartupVariants == {"01", "stdout", "final"}

InitStartup ==
  /\ variant \in StartupVariants
  /\ mainPc = "start"
  /\ provider = "noop"
  /\ propagator = "none"
  /\ shutdownCalls = 0
  /\ now = 1
  /\ spans = [id \in SpanIds |-> NotStarted]
  /\ reqs = [r \in Requests |-> IdleReq]
  /\ queue = <<>>
  /\ exports = <<>>
  /\ dropped = 0
  /\ bspStopped = FALSE
  /\ webConfig = "final"
  /\ option = ""
  /\ subs = [i \in Submits |-> IdleSub]
  /\ wspans = [id \in WebSpanIds |-> NotStarted]
  /\ wpipe = NoWebPipe
  /\ environ \in Environs
  /\ pipeline = NoPipeline
  /\ carrier = NoCarrier

NextStartup ==
  \/ InitOpenTelemetry01
  \/ InitOpenTelemetryStdout
  \/ InitOpenTelemetry
  \/ RouterRun
  \/ ProcessExit

SpecStartup == InitStartup /\ [][NextStartup]_vars

(***************************************************************************)
(* The propagator on its own: a span context and baggage are injected,     *)
(* the headers travel, and are extracted.                                  *)
(***************************************************************************)
PropagatorInject ==
  /\ carrier.pc = "ctx"
  /\ carrier' = [carrier EXCEPT !.pc = "injected",
                                !.headers = GoInject(carrier.sc, carrier.baggage)]
  /\ UNCHANGED serverVars
  /\ UNCHANGED webVars
  /\ UNCHANGED envVars

Transport(how) ==
  /\ carrier.pc = "injected"
  /\ carrier' = [carrier EXCEPT !.pc = "received", !.tamper = how,
                                !.headers = Tamper(carrier.headers, how)]
  /\ UNCHANGED serverVars
  /\ UNCHANGED webVars
  /\ UNCHANGED envVars

PropagatorExtract ==
  /\ carrier.pc = "received"
  /\ carrier' = [carrier EXCEPT !.pc = "extracted", !.out = GoExtract(carrier.headers)]
  /\ UNCHANGED serverVars
  /\ UNCHANGED webVars
  /\ UNCHANGED envVars

InitPropagation ==
  /\ variant = "final"
  /\ mainPc = "serving"
  /\ provider = "sdk"
  /\ propagator = "tracecontext+baggage"
  /\ shutdownCalls = 0
  /\ now = 1
  /\ spans = [id \in SpanIds |-> NotStarted]
  /\ reqs = [r \in Requests |-> IdleReq]
  /\ queue = <<>>
  /\ exports = <<>>
  /\ dropped = 0
  /\ bspStopped = FALSE
  /\ webConfig = "final"
  /\ option = ""
  /\ subs = [i \in Submits |-> IdleSub]
  /\ wspans = [id \in WebSpanIds |-> NotStarted]
  /\ wpipe = NoWebPipe
  /\ environ = [lookup |-> [ok |-> FALSE, value |-> ""], collector |-> "up",
                resourceErr |-> FALSE]
  /\ pipeline = [endpoint |-> Endpoint(environ.lookup),
                 resource |-> ResourceNew(environ.resourceErr).res,
                 registered |-> SetGlobals(<<>>)]
  /\ carrier \in [pc : {"ctx"}, sc : SpanContexts, baggage : Baggages, headers : {{}},
                   tamper : {"none"}, out : {[sc |-> EmptySC, baggage |-> <<>>]}]

NextPropagation ==
  \/ PropagatorInject
  \/ \E how \in Tampers : Transport(how)
  \/ PropagatorExtract

SpecPropagation == InitPropagation /\ [][NextPropagation]_vars

(***************************************************************************)
(* The batching processor on its own: spans end in the handlers of a       *)
(* serving process while the processor's background activity runs.         *)
(***************************************************************************)
InitBatch ==
  /\ variant = "final"
  /\ mainPc = "serving"
  /\ provider = "sdk"
  /\ propagator = "tracecontext+baggage"
  /\ shutdownCalls = 0
  /\ now = 1
  /\ spans = [id \in SpanIds |-> NotStarted]
  /\ reqs = [r \in Requests |-> IdleReq]
  /\ queue = <<>>
  /\ exports = <<>>
  /\ dropped = 0
  /\ bspStopped = FALSE
  /\ webConfig = "final"
  /\ option = ""
  /\ subs = [i \in Submits |-> IdleSub]
  /\ wspans = [id \in WebSpanIds |-> NotStarted]
  /\ wpipe = NoWebPipe
  /\ environ \in {e \in Environs : ~e.lookup.ok /\ ~e.resourceErr}
  /\ pipeline = [endpoint |-> Endpoint(environ.lookup),
                 resource |-> ResourceNew(environ.resourceErr).res,
                 registered |-> SetGlobals(<<>>)]
  /\ carrier = NoCarrier

NextBatch ==
  \/ SpanEnds
  \/ Tick
  \/ BspCountFlush
  \/ ExportReturns

SpecBatch == InitBatch /\ [][NextBatch]_vars

\* The processor's goroutine keeps running and exporter calls return.
SpecBatchLive == SpecBatch /\ WF_vars(BspCountFlush) /\ WF_vars(ExportReturns)

(***************************************************************************)
(* The server with CORSMiddleware, serving.                                *)
(***************************************************************************)
InitCors ==
  /\ variant = "cors"
  /\ mainPc = "serving"
  /\ provider = "sdk"
  /\ propagator = "tracecontext+baggage"
  /\ shutdownCalls = 0
  /\ now = 1
  /\ spans = [id \in SpanIds |-> NotStarted]
  /\ reqs = [r \in Requests |-> IdleReq]
  /\ queue = <<>>
  /\ exports = <<>>
  /\ dropped = 0
  /\ bspStopped = FALSE
  /\ webConfig = "final"
  /\ option = ""
  /\ subs = [i \in Submits |-> IdleSub]
  /\ wspans = [id \in WebSpanIds |-> NotStarted]
  /\ wpipe = NoWebPipe
  /\ environ = [lookup |-> [ok |-> FALSE, value |-> ""], collector |-> "up",
                resourceErr |-> FALSE]
  /\ pipeline = [endpoint |-> Endpoint(environ.lookup),
                 resource |-> ResourceNew(environ.resourceErr).res,
                 registered |-> SetGlobals(<<>>)]
  /\ carrier = NoCarrier

NextCors ==
  \/ \E r \in Requests : CORSMiddleware(r)
  \/ \E r \in Requests : MiddlewareStart(r)
  \/ \E r \in Requests : HelloHandler(r)
  \/ \E r \in Requests : HandleFormEnter(r)
  \/ \E r \in Requests : ClientDo(r)
  \/ \E r \in Requests : ReadBody(r)
  \/ \E r \in Requests : MiddlewareEnd(r)

SpecCors == InitCors /\ [][NextCors]_vars

(***************************************************************************)
(* The web client talking to a running server.                             *)
(***************************************************************************)
InitWeb ==
  /\ variant \in {"final", "cors"}
  /\ mainPc = "serving"
  /\ provider = "sdk"
  /\ propagator = "tracecontext+baggage"
  /\ shutdownCalls = 0
  /\ now = 1
  /\ spans = [id \in SpanIds |-> NotStarted]
  /\ reqs = [r \in Requests |-> IdleReq]
  /\ queue = <<>>
  /\ exports = <<>>
  /\ dropped = 0
  /\ bspStopped = FALSE
  /\ webConfig \in WebConfigs
  /\ option = ""
  /\ subs = [i \in Submits |-> IdleSub]
  /\ wspans = [id \in WebSpanIds |-> NotStarted]
  /\ wpipe = NoWebPipe
  /\ environ = [lookup |-> [ok |-> FALSE, value |-> ""], collector |-> "up",
                resourceErr |-> FALSE]
  /\ pipeline = [endpoint |-> Endpoint(environ.lookup),
                 resource |-> ResourceNew(environ.resourceErr).res,
                 registered |-> SetGlobals(<<>>)]
  /\ carrier = NoCarrier

NextWeb ==
  \/ \E v \in Options : SetOption(v)
  \/ \E i \in Submits : GetActivity(i)
  \/ \E i \in Submits : FetchSettles(i)
  \/ \E i \in Submits : TextSettles(i)
  \/ WebBatchFlush

SpecWeb == InitWeb /\ [][NextWeb]_vars

(***************************************************************************)
(* Properties of the Go server.                                            *)
(***************************************************************************)
Started(id) == id # NoSpan /\ IsStarted(spans, id)
Returned(r) == reqs[r].pc \in {"mwend", "done"}

\* The error each failure point of getActivityWithParams produces.
FailureErr(f) == CASE f = "newreq" -> ErrNewRequest
                   [] f = "do" -> ErrDo
                   [] f = "read" -> ErrRead
                   [] f = "unmarshal" -> ErrUnmarshal
                   [] OTHER -> NilErr

\* C1: in stage 01 provider.Shutdown is not invoked before the process ends,
\* so while main is starting or serving no Shutdown has happened and no span
\* was started on a provider that was already shut down.
C1_ShutdownOnlyAtEnd ==
  variant = "01" =>
    /\ mainPc # "exited" => shutdownCalls = 0
    /\ \A id \in SpanIds : IsStarted(spans, id) => ~spans[id].afterShutdown

\* C2: in the final server, when the process has terminated every span the
\* processor accepted has been handed to the exporter or counted as dropped:
\* none is still waiting in the queue.
C2_NoSpanLeftAtExit ==
  (variant = "final" /\ mainPc = "exited") => queue = <<>>

\* C3: when getActivityWithParams has returned, a failure at one of its four
\* failure points left exactly one event with that error's message on the
\* span, added before the span ended, and that same error was returned; on
\* success there is no event and the error is nil.
C3_ErrorsRecordedAndReturned ==
  \A r \in Requests :
    Returned(r) =>
      LET g == spans[reqs[r].gawpSpan]
          e == FailureErr(reqs[r].failedAt)
      IN /\ g.endCalls > 0
         /\ g.lateWrites = 0
         /\ reqs[r].err = e
         /\ g.events = IF e = NilErr THEN <<>> ELSE <<ErrorMsg(e)>>

C3_Witness ==
  \E r \in Requests :
    /\ reqs[r].pc = "done"
    /\ reqs[r].failedAt = "unmarshal"
    /\ spans[reqs[r].gawpSpan].events = <<ErrorMsg(ErrUnmarshal)>>

C5_LifecycleState ==
  \A r \in Requests :
    Started(reqs[r].gawpSpan) =>
      LET g == spans[reqs[r].gawpSpan]
      IN /\ g.lateWrites = 0
         /\ reqs[r].pc \in {"do", "read"} => g.endCalls = 0
         /\ Returned(r) => (g.endCalls = 1 /\ g.end >= g.start)

C5_LifecycleStep ==
  \A id \in SpanIds :
    (IsStarted(spans, id) /\ spans[id].name = "getActivityWithParams" /\ IsEnded(spans, id)) =>
      /\ spans'[id].end = spans[id].end
      /\ spans'[id].events = spans[id].events
      /\ spans'[id].attrs = spans[id].attrs
      /\ spans'[id].endCalls = spans[id].endCalls

C5_SpanLifecycle == [](C5_LifecycleState) /\ [][C5_LifecycleStep]_vars

C5_Witness ==
  \E r \in Requests :
    /\ reqs[r].pc = "done"
    /\ spans[reqs[r].gawpSpan].endCalls = 1
    /\ spans[reqs[r].gawpSpan].end > spans[reqs[r].gawpSpan].start
    /\ spans[reqs[r].gawpSpan].events # <<>>

(***************************************************************************)
(* Properties of the web client.                                           *)
(***************************************************************************)
\* C6: when the request of a submission has run to its outcome, whatever the
\* outcome, the span fetchActivity has been ended exactly once.
C6_FetchActivityEnded ==
  \A i \in Submits :
    subs[i].pc = "settled" => wspans[FetchActivityId(i)].endCalls = 1

\* C7: the span of the instrumented fetch is a child of fetchActivity in the
\* same trace, fetchActivity is still the active span after an await inside
\* the callback, and the context active before context.with is active again
\* after it.
C7_FetchSpanIsChild ==
  \A i \in Submits :
    subs[i].pc # "idle" =>
      /\ wspans[FetchSpanId(i)].parent = FetchActivityId(i)
      /\ wspans[FetchSpanId(i)].trace = wspans[FetchActivityId(i)].trace
      /\ subs[i].pc = "text" => subs[i].ctxAfterAwait = FetchActivityId(i)
      /\ subs[i].ctxAfterWith = NoSpan

\* C8: between the final web client and the final server, a getActivity
\* request to a reachable server gets past the CORS handling with its trace
\* headers, and the server's request span is in the trace of the client's
\* fetch span and has it as parent.
C8_EndToEndPropagation ==
  \A i \in Submits :
    (webConfig = "final" /\ variant = "final" /\ subs[i].serverUp) =>
      /\ subs[i].delivered
      /\ subs[i].headers # {}
      /\ subs[i].srvSpan.trace = wspans[FetchSpanId(i)].trace
      /\ subs[i].srvParent = FetchSpanId(i)

\* C9: for every FetchInstrumentation configuration, the URL Form.getActivity
\* fetches matches propagateTraceHeaderCorsUrls and trace headers are injected.
C9_TraceHeadersInjected ==
  \A i \in Submits :
    subs[i].pc # "idle" =>
      /\ \E m \in CorsUrls(webConfig) : UrlMatches(subs[i].url, m)
      /\ subs[i].headers # {}

(***************************************************************************)
(* Properties of the batching processor.                                   *)
(***************************************************************************)
\* C10: when the batch timeout elapses with N queued spans, 0 < N < 10, and
\* the processor is not inside an exporter call, one export call is made and
\* it carries all N of them; with nothing queued no export call is made, and
\* no export call ever carries an empty batch.
C10_TimerStep ==
  (now' # now /\ BspRunning /\ ~Exporting) =>
    /\ queue = <<>> => exports' = exports
    /\ (queue # <<>> /\ Len(queue) < 10) =>
         /\ exports' = Append(exports, [batch |-> queue, why |-> "timer",
                                        result |-> "pending", timerDue |-> FALSE])
         /\ queue' = <<>>

C10_FlushByTime ==
  /\ [](\A k \in 1..Len(exports) : exports[k].batch # <<>>)
  /\ [][C10_TimerStep]_vars

C10_Witness ==
  \E k \in 1..Len(exports) :
    /\ exports[k].why = "timer"
    /\ Len(exports[k].batch) = 9
    /\ queue = <<>>

\* C11: an export call made because the batch size was reached is made with
\* at least 10 spans queued, carries exactly the first 10 of them and leaves
\* the others queued in their order; a batch timeout elapsing first exports
\* instead, with at most 10 spans; and a queue holding 10 spans or more does
\* not stay so: one of the two triggers exports from it.
C11_CountStep ==
  Len(exports') > Len(exports) =>
    LET call == exports'[Len(exports')]
    IN /\ Len(call.batch) <= 10
       /\ call.batch = SubSeq(queue, 1, Len(call.batch))
       /\ queue' = SubSeq(queue, Len(call.batch) + 1, Len(queue))
       /\ call.why = "count" => (Len(queue) >= 10 /\ Len(call.batch) = 10)
       /\ Len(queue) >= 10 => Len(call.batch) = 10

C11_FlushByCount ==
  /\ [][C11_CountStep]_vars
  /\ (Len(queue) >= 10) ~> (Len(queue) < 10)

C11_Witness ==
  /\ exports # <<>>
  /\ exports[Len(exports)].why = "count"
  /\ Len(exports[Len(exports)].batch) = 10
  /\ queue # <<>>
  /\ queue[1] = exports[Len(exports)].batch[10] + 1

\* C12: a span ending while the queue is at capacity is dropped: the dropped
\* counter goes up by exactly 1 and the queued spans stay as they are; the
\* counter changes in no other way, the queue never exceeds its capacity, and
\* a span can always end, full queue or not.
C12_OverflowStep ==
  /\ (Len(queue) >= MaxQueueSize /\ exports' = exports /\ now' = now
        /\ <<queue, dropped>>' # <<queue, dropped>>) =>
       (queue' = queue /\ dropped' = dropped + 1)
  /\ dropped' # dropped =>
       (Len(queue) = MaxQueueSize /\ dropped' = dropped + 1 /\ queue' = queue)

C12_QueueOverflow ==
  /\ [](Len(queue) <= MaxQueueSize)
  /\ []((BspRunning /\ Handled < MaxSpans) => ENABLED SpanEnds)
  /\ [][C12_OverflowStep]_vars

C12_Witness ==
  /\ Len(queue) = MaxQueueSize
  /\ dropped = 2
  /\ \A k \in 1..Len(queue) : queue[k] <= MaxQueueSize

\* The spans in the batches of a log of export calls.
Batched(ex) ==
  UNION {{ex[c].batch[k] : k \in 1..Len(ex[c].batch)} : c \in 1..Len(ex)}

\* C25: the queue never holds more spans than its maximum size; every export
\* call made carries at least 1 and at most 10 spans; no span is in two
\* export calls, nor twice in one; and the same holds of the export calls a
\* shutdown of the processor in this state makes to drain the queue.
C25_PipelineBounds ==
  LET drained == BspShutdown(BspState, "ok").st
  IN /\ Len(queue) <= MaxQueueSize
     /\ \A k \in 1..Len(exports) : Len(exports[k].batch) \in 1..10
     /\ Cardinality(Batched(exports)) = Exported(exports)
     /\ drained.queue = <<>>
     /\ \A k \in 1..Len(drained.exports) : Len(drained.exports[k].batch) \in 1..10
     /\ Cardinality(Batched(drained.exports)) = Exported(exports) + Len(queue)

\* The queue is full after a batch of 10 was exported, so draining it takes
\* two more export calls.
C25_Witness ==
  /\ Len(queue) = MaxQueueSize
  /\ exports # <<>>
  /\ \E k \in 1..Len(exports) : Len(exports[k].batch) = 10
  /\ \E k \in 1..Len(exports) : Len(exports[k].batch) = 1
  /\ Len(BspShutdown(BspState, "ok").st.exports) = Len(exports) + 2

(***************************************************************************)
(* Properties of the server's export pipeline.                             *)
(***************************************************************************)
\* The spans the processor holds: those in the queue and those in the batches
\* of the export calls made.
Held ==
  {queue[k] : k \in 1..Len(queue)}
    \cup UNION {{exports[c].batch[k] : k \in 1..Len(exports[c].batch)} :
                 c \in 1..Len(exports)}

\* A span the processor accepted: ended while the processor was running.
Accepted(id) == IsEnded(spans, id) /\ ~spans[id].afterShutdown

Answer(f) ==
  IF f = "none" THEN <<[status |-> 200, body |-> "activity"]>>
  ELSE <<[status |-> 500, body |-> ErrorMsg(FailureErr(f))],
         [status |-> 200, body |-> "activity"]>>

C19_MalformedHeaderStartsRoot ==
  /\ mainPc = "initialized" =>
       /\ \A how \in Tampers \ {"none"} :
            ServerExtract(Tamper(IncomingHeaders("valid"), how)) = NoCtx
       /\ ServerExtract(IncomingHeaders("valid")) = RemoteCtx
  /\ \A r \in Requests :
       (reqs[r].pc # "idle" /\ reqs[r].hdr \in {"absent", "malformed"}) =>
         /\ Started(reqs[r].reqSpan)
         /\ spans[reqs[r].reqSpan].parent = NoSpan
         /\ spans[reqs[r].reqSpan].trace = reqs[r].reqSpan
         /\ Returned(r) =>
              /\ Started(reqs[r].gawpSpan)
              /\ reqs[r].writes = Answer(reqs[r].failedAt)

C19_Witness ==
  \E r \in Requests :
    /\ reqs[r].pc = "done"
    /\ reqs[r].hdr = "malformed"
    /\ propagator # "none"
    /\ spans[reqs[r].reqSpan].parent = NoSpan
    /\ reqs[r].writes = Answer("none")

(***************************************************************************)
(* Properties of start-up.                                                 *)
(***************************************************************************)
\* C15: in the final server no endpoint exists before initialisation; once
\* InitOpenTelemetry has run the exporter's endpoint is localhost:4317 when
\* COLLECTOR_ENDPOINT was absent and the variable's value, whatever it is,
\* when it was present; and an endpoint once chosen never changes.
C15_EndpointStep ==
  pipeline.endpoint # "none" => pipeline'.endpoint = pipeline.endpoint

C15_EndpointSelection ==
  /\ [](mainPc = "start" => pipeline.endpoint = "none")
  /\ []((variant = "final" /\ mainPc # "start") =>
          pipeline.endpoint = IF environ.lookup.ok THEN environ.lookup.value
                              ELSE "localhost:4317")
  /\ [][C15_EndpointStep]_vars

C15_Witness ==
  /\ variant = "final"
  /\ mainPc = "serving"
  /\ environ.lookup.ok
  /\ pipeline.endpoint = "collector:4317"

\* C16: when resource.New fails, initialisation ends the process and no
\* provider is registered.
C16_ResourceErrorIsFatal ==
  (environ.resourceErr /\ mainPc # "start") => (mainPc = "fatal" /\ provider = "noop")

C21_TracingMiddlewareContract ==
  \A r \in Requests :
    reqs[r].pc # "idle" =>
      LET s == spans[reqs[r].reqSpan]
      IN /\ Started(reqs[r].reqSpan)
         /\ s.name = "/getActivity"
         /\ s.lateWrites = 0
         /\ reqs[r].pc \in {"handler", "do", "read", "mwend"} => s.endCalls = 0
         /\ reqs[r].pc = "handler" => (s.attrs = <<>> /\ reqs[r].writes = <<>>)
         /\ (reqs[r].pc # "handler" /\ variant # "01") =>
              (Len(s.attrs) = 1 /\ s.attrs[1][1] = "emptyForm")
         /\ Started(reqs[r].gawpSpan) => spans[reqs[r].gawpSpan].parent = reqs[r].reqSpan
         /\ reqs[r].pc = "mwend" => reqs[r].writes # <<>>
         /\ reqs[r].pc = "done" =>
              /\ s.endCalls = 1
              /\ s.end >= s.start
              /\ spans[reqs[r].gawpSpan].endCalls = 1
              /\ s.end >= spans[reqs[r].gawpSpan].end

C21_Witness ==
  \E r \in Requests :
    /\ reqs[r].pc = "done"
    /\ variant = "final"
    /\ reqs[r].writes[1].status = 500
    /\ spans[reqs[r].reqSpan].endCalls = 1
    /\ spans[reqs[r].reqSpan].end > spans[reqs[r].reqSpan].start
    /\ spans[reqs[r].reqSpan].attrs # <<>>

\* C22: once handleForm has set it, and before getActivityWithParams is
\* called, the request span carries the attribute emptyForm, whose value is
\* true exactly when the submitted form value type is the empty string.
C22_EmptyFormAttribute ==
  \A r \in Requests :
    (variant # "01" /\ reqs[r].pc \notin {"idle", "handler"}) =>
      /\ spans[reqs[r].reqSpan].attrs = <<(<<"emptyForm", reqs[r].formType = "">>)>>
      /\ spans[reqs[r].gawpSpan].start >= spans[reqs[r].reqSpan].start

(***************************************************************************)
(* Properties of the browser's span pipeline.                              *)
(***************************************************************************)
\* The export calls one exporter was given, in order.
ExportsTo(exporter) == SelectSeq(wpipe.exported, LAMBDA e : e.exporter = exporter)

\* C23: in the final web client the provider's processors are the simple
\* processor with the console exporter and then the batch processor with the
\* collector exporter; every ended span was delivered to the first and then
\* to the second; it was given to the console exporter once, and is either
\* buffered for the collector or in exactly one batch given to the collector
\* exporter, whatever result either exporter reported.
C23_BothProcessorsInOrder ==
  webConfig = "final" =>
    /\ Len(wpipe.delivered) = 2 * Len(wpipe.ended)
    /\ \A k \in 1..Len(wpipe.ended) :
         /\ wpipe.delivered[2 * k - 1] =
              [proc |-> 1, to |-> SimpleConsole, span |-> wpipe.ended[k]]
         /\ wpipe.delivered[2 * k] =
              [proc |-> 2, to |-> BatchCollector, span |-> wpipe.ended[k]]
    /\ \A id \in WebSpanIds :
         IsEnded(wspans, id) =>
           LET queued == {k \in 1..Len(wpipe.wqueue) : wpipe.wqueue[k] = id}
               sent == {c \in 1..Len(ExportsTo("collector")) :
                          \E k \in 1..Len(ExportsTo("collector")[c].batch) :
                            ExportsTo("collector")[c].batch[k] = id}
               shown == {c \in 1..Len(ExportsTo("console")) :
                           ExportsTo("console")[c].batch = <<id>>}
           IN /\ Cardinality(shown) = 1
              /\ Cardinality(queued) + Cardinality(sent) = 1

\* The console exporter failed for a span that went on to the collector, and
\* the collector exporter failed for a batch whose spans are on the console.
C23_Witness ==
  /\ webConfig = "final"
  /\ Len(wpipe.ended) = 2
  /\ \E c \in 1..Len(ExportsTo("console")) :
       /\ ExportsTo("console")[c].result = "failed"
       /\ \E d \in 1..Len(ExportsTo("collector")) :
            ExportsTo("collector")[d].batch[1] = ExportsTo("console")[c].batch[1]
  /\ \E d \in 1..Len(ExportsTo("collector")) : ExportsTo("collector")[d].result = "failed"
  /\ wpipe.wqueue # <<>>

\* C24: when end() of a span has returned, the simple processor has given
\* that span to the console exporter, which forwarded it or failed; and the
\* console exporter was given the spans one at a time in the order in which
\* they ended.
C24_SimpleProcessorBeforeEndReturns ==
  /\ Len(ExportsTo("console")) = Len(wpipe.ended)
  /\ \A k \in 1..Len(wpipe.ended) :
       /\ ExportsTo("console")[k].batch = <<wpipe.ended[k]>>
       /\ ExportsTo("console")[k].result \in {"ok", "failed"}
  /\ \A id \in WebSpanIds :
       IsEnded(wspans, id) => \E k \in 1..Len(wpipe.ended) : wpipe.ended[k] = id

C24_Witness ==
  /\ webConfig = "base"
  /\ Len(wpipe.ended) = 2
  /\ wpipe.ended[1] = FetchSpanId(1)
  /\ ExportsTo("console")[1].batch = <<FetchSpanId(1)>>
  /\ ExportsTo("console")[2].batch = <<FetchActivityId(1)>>
  /\ ExportsTo("console")[1].result = "failed"

(***************************************************************************)
(* Properties of client and server together.                               *)
(***************************************************************************)
\* C26: for every client configuration, from the headers the client's
\* registered propagator injects for the span of the getActivity request the
\* server's composite propagator extracts a context with that span's trace
\* id.
C26_PropagationFormatAgreed ==
  \A i \in Submits :
    subs[i].pc # "idle" =>
      LET ctx == CtxOf(wspans, FetchSpanId(i))
      IN ServerExtract(Inject(WebPropagator(webConfig), ctx)).trace = ctx.trace

(***************************************************************************)
(* Properties of the order of start-up in the final server.                *)
(***************************************************************************)
\* How many times a call is in the log of calls that set the globals.
Calls(name) == Cardinality({k \in 1..Len(pipeline.registered) : pipeline.registered[k] = name})

C28_OneResponsePerRequest ==
  \A r \in Requests :
    Returned(r) =>
      /\ Len(reqs[r].writes) = 1
      /\ reqs[r].writes[1] = IF reqs[r].err # NilErr
                             THEN [status |-> 500, body |-> ErrorMsg(reqs[r].err)]
                             ELSE [status |-> 200, body |-> "activity"]

(***************************************************************************)
(* Properties of the form value on its way from the browser to the server. *)
(***************************************************************************)
\* C29: for a submission the server received, the form value handleForm
\* read, the activityType attribute and the type parameter of the upstream
\* query all equal the option that was selected in the form.
C29_SelectedTypeReachesServer ==
  \A i \in Submits :
    subs[i].delivered =>
      /\ subs[i].formType = subs[i].option
      /\ subs[i].activityType = subs[i].option
      /\ subs[i].upstreamType = subs[i].option

(***************************************************************************)
(* Properties of the server with CORSMiddleware.                           *)
(***************************************************************************)
HeaderNames(hs) == {h.name : h \in hs}

\* The spans of a request: none of its three span ids has been started.
NoSpanFor(r) ==
  /\ ~IsStarted(spans, ReqSpanId(r))
  /\ ~IsStarted(spans, GawpSpanId(r))
  /\ ~IsStarted(spans, ClientSpanId(r))

\* C30: every request the server with CORSMiddleware received has the four
\* Access-Control headers on its response, traceparent and baggage among the
\* allowed headers; a request with method OPTIONS is answered 204 and
\* aborted, with no span started for it and nothing written by a handler;
\* a request with any other method is not aborted, goes on to the tracing
\* middleware, which starts its span, and to its route handler, which
\* answers it.
C30_CorsPreflight ==
  \A r \in Requests :
    reqs[r].pc # "idle" =>
      /\ HeaderNames(reqs[r].respHeaders) =
           {"Access-Control-Allow-Origin", "Access-Control-Allow-Credentials",
            "Access-Control-Allow-Headers", "Access-Control-Allow-Methods"}
      /\ {"traceparent", "baggage"} \subseteq Header(reqs[r].respHeaders,
                                                     "Access-Control-Allow-Headers")
      /\ reqs[r].method = "OPTIONS" =>
           /\ reqs[r].pc = "done"
           /\ reqs[r].aborted
           /\ reqs[r].writes = <<[status |-> 204, body |-> ""]>>
           /\ reqs[r].reqSpan = NoSpan
           /\ NoSpanFor(r)
      /\ reqs[r].method # "OPTIONS" =>
           /\ ~reqs[r].aborted
           /\ reqs[r].pc = "next" => (NoSpanFor(r) /\ ENABLED MiddlewareStart(r))
           /\ reqs[r].pc # "next" => Started(reqs[r].reqSpan)
           /\ reqs[r].pc = "handler" =>
                ENABLED (IF reqs[r].method = "POST" THEN HandleFormEnter(r)
                         ELSE HelloHandler(r))
           /\ reqs[r].pc = "done" =>
                /\ spans[reqs[r].reqSpan].endCalls = 1
                /\ reqs[r].writes # <<>>
                /\ reqs[r].writes[1].status # 204
                /\ reqs[r].method = "POST" <=> Started(reqs[r].gawpSpan)

\* A preflight was answered: 204, the headers on it, and no span.
C30_Witness ==
  /\ variant = "cors"
  /\ \E r \in Requests :
       /\ reqs[r].pc = "done"
       /\ reqs[r].method = "OPTIONS"
       /\ reqs[r].writes[1].status = 204
       /\ NoSpanFor(r)
       /\ Header(reqs[r].respHeaders, "Access-Control-Allow-Origin") = {"*"}

====
